---- MODULE Spec2Model ----
(***************************************************************************)
(* Model of sense2vec/component.py: the Sense2VecComponent pipeline        *)
(* component (the "annotation binding layer").                             *)
(*                                                                         *)
(* The component's own code (construction, __call__, init_component, the   *)
(* extension getters, the serialization passthrough) is translated from    *)
(* component.py.  Its collaborators that live in other files of the        *)
(* package (sense2vec.Sense2Vec, util.make_spacy_key, util.merge_phrases)  *)
(* are modelled from the written specification of their interfaces.        *)
(* spaCy's extension registry (set_extension / the "_" attribute proxy)    *)
(* is modelled by its documented behaviour: registering a name that is     *)
(* already registered raises, reading a name that is not registered        *)
(* raises, a registered attribute with a default reads as that default.    *)
(***************************************************************************)
EXTENDS Integers, Sequences, FiniteSets, TLC

\* ------------------------------------------------------------------ bounds
MaxLayers == 2      \* components constructed
MaxDocs   == 2      \* documents of the host
MaxStores == 3      \* Sense2Vec objects ever allocated (construct + loads)
MaxCalls  == 2      \* __call__ invocations, all components together
MaxOneLayers == 1   \* components in the one-component specification
MaxOneStores == 2   \* Sense2Vec objects allocated in it
MaxThreads    == 2
MaxN      == 2      \* largest n handed to s2v_most_similar

Docs  == 1..MaxDocs
NVals == 0..MaxN
Threads == 1..MaxThreads
Idle == [pc |-> "idle", layer |-> 0, doc |-> 0, i |-> 0]
None  == 0          \* Python's None where a store reference is expected (line 65)

VARIABLES
  layers,      \* Seq of [s2v, first_run, merge_phrases]: the components
  stores,      \* Seq of [rows, strings]: every Sense2Vec object allocated
  extensions,  \* set of <<class, name, owner>>: spaCy's extension registry
  doc_s2v,     \* Docs -> store id or None: the value of doc._._s2v
  merged,      \* docs that are an output of merge_phrases
  passed,      \* docs that were ever the argument of a __call__
  disk,        \* Paths -> payload or NoFile
  init_calls,  \* Seq of Nat: how often each component ran init_component
  calls,       \* Seq of Nat: how often each component's __call__ was invoked
  last,        \* the last operation, its arguments and its outcome
  threads      \* Threads -> [pc, layer, doc, i]: where each thread is in __call__

vars == <<layers, stores, extensions, doc_s2v, merged, passed, disk,
          init_calls, calls, last, threads>>

\* ------------------------------------------------------- outcomes of calls
Ok(v)  == [ok |-> TRUE, val |-> v]
Err(e) == [ok |-> FALSE, err |-> e]

\* --------------------------------------------------------------- key codec
SEP == "|"

Lower(c) ==
  CASE c = "D" -> "d" [] c = "N" -> "n" [] c = "Y" -> "y"
    [] c = "G" -> "g" [] c = "V" -> "v" [] OTHER -> c

Upper(c) ==
  CASE c = "d" -> "D" [] c = "n" -> "N" [] c = "y" -> "Y"
    [] c = "g" -> "G" [] c = "v" -> "V" [] OTHER -> c

UpperSeq(s) == [i \in 1..Len(s) |-> Upper(s[i])]

RECURSIVE StripSep(_)
StripSep(s) ==
  IF s = <<>> THEN <<>>
  ELSE IF Head(s) = SEP THEN StripSep(Tail(s))
  ELSE <<Head(s)>> \o StripSep(Tail(s))

\* lower-cased, whitespace replaced by underscores, the separator stripped
normalize_text(text) ==
  LET t == StripSep(text)
  IN  [i \in 1..Len(t) |-> IF t[i] = " " THEN "_" ELSE Lower(t[i])]

make_key(word, sense) == word \o <<SEP>> \o sense

\* position of the last separator of a key, 0 when it has none
LastSep(key) ==
  LET idx == {i \in 1..Len(key) : key[i] = SEP}
  IN  IF idx = {} THEN 0 ELSE CHOOSE i \in idx : \A j \in idx : j <= i

split_key(key) ==
  LET p == LastSep(key)
  IN  <<SubSeq(key, 1, p - 1), SubSeq(key, p + 1, Len(key))>>

\* util.make_spacy_key(obj, make_key, prefer_ents)
make_spacy_key(obj, prefer_ents) ==
  LET sense == IF prefer_ents /\ obj.ent # <<>> THEN UpperSeq(obj.ent)
               ELSE UpperSeq(obj.pos)
  IN  IF sense = <<>> THEN Err("UnresolvableSense")
      ELSE Ok(make_key(normalize_text(obj.text), sense))

\* ------------------------------------------------ Sense2Vec, the vector store
\* A store is [rows, strings]: rows is the table, one [key, vec, freq] per key
\* in insertion order (a vector is one integer here); strings tells whose
\* string table the store is attached to.
Bytes(rows)  == [valid |-> TRUE, rows |-> rows]
Malformed    == [valid |-> FALSE, rows |-> <<>>]

store_new(strings) == [rows |-> <<>>, strings |-> strings]

\* Sense2Vec().to_bytes(exclude=["strings"])
store_to_bytes(st) == Bytes(st.rows)

\* Sense2Vec().from_bytes(data, exclude=["strings"]): a store built without a
\* strings argument has a string table of its own
store_from_bytes(data) ==
  IF data.valid THEN Ok([rows |-> data.rows, strings |-> "private"])
  ELSE Err("StoreLoadError")

store_contains(st, key) == \E i \in 1..Len(st.rows) : st.rows[i].key = key

store_row(st, key) ==
  st.rows[CHOOSE i \in 1..Len(st.rows) : st.rows[i].key = key]

store_get(st, key) ==
  IF store_contains(st, key) THEN Ok(store_row(st, key).vec)
  ELSE Err("KeyNotFound")

store_get_freq(st, key) ==
  IF store_contains(st, key) THEN Ok(store_row(st, key).freq)
  ELSE Err("KeyNotFound")

Abs(x) == IF x < 0 THEN -x ELSE x
Similarity(a, b) == 10 - Abs(a - b)

\* insert the pair p into the score-descending sequence s, after its equals
RECURSIVE InsertDesc(_, _)
InsertDesc(s, p) ==
  IF s = <<>> THEN <<p>>
  ELSE IF Head(s)[2] >= p[2] THEN <<Head(s)>> \o InsertDesc(Tail(s), p)
  ELSE <<p>> \o s

RECURSIVE SortDesc(_)
SortDesc(s) ==
  IF s = <<>> THEN <<>>
  ELSE InsertDesc(SortDesc(SubSeq(s, 1, Len(s) - 1)), s[Len(s)])

RECURSIVE Neighbours(_, _, _)
Neighbours(rows, keys, v) ==
  IF rows = <<>> THEN <<>>
  ELSE LET r    == Head(rows)
           rest == Neighbours(Tail(rows), keys, v)
       IN  IF \E i \in 1..Len(keys) : keys[i] = r.key THEN rest
           ELSE <<<<r.key, Similarity(v, r.vec)>>>> \o rest

\* the n nearest neighbours of the (single) query key, most similar first
store_most_similar(st, keys, n) ==
  IF \E i \in 1..Len(keys) : ~store_contains(st, keys[i])
  THEN Err("KeyNotFound")
  ELSE LET v   == store_row(st, keys[1]).vec
           all == SortDesc(Neighbours(st.rows, keys, v))
       IN  Ok(SubSeq(all, 1, IF n < Len(all) THEN n ELSE Len(all)))

RECURSIVE OtherSenses(_, _)
OtherSenses(rows, key) ==
  IF rows = <<>> THEN <<>>
  ELSE LET r    == Head(rows)
           rest == OtherSenses(Tail(rows), key)
       IN  IF r.key # key /\ split_key(r.key)[1] = split_key(key)[1]
           THEN <<r.key>> \o rest ELSE rest

store_get_other_senses(st, key) == OtherSenses(st.rows, key)

\* ------------------------------------------------------------ sample inputs
Rows1 ==
  << [key |-> <<"d", "|", "N">>,           vec |-> 3, freq |-> 42],
     [key |-> <<"d", "|", "V">>,           vec |-> 5, freq |-> 7],
     [key |-> <<"n", "_", "y", "|", "G">>, vec |-> 1, freq |-> 2],
     [key |-> <<"c", "|", "N">>,           vec |-> 4, freq |-> 5] >>

Rows2 ==
  << [key |-> <<"d", "|", "N">>,           vec |-> 6, freq |-> 9],
     [key |-> <<"d", "|", "G">>,           vec |-> 6, freq |-> 1] >>

SampleBytes == {Bytes(Rows1), Bytes(Rows2), Malformed}

Paths == {"dir"}

\* the linguistic objects the accessors are called on: [kind, text, pos, ent]
Protos ==
  { [kind |-> "Token", text |-> <<"D">>,           pos |-> <<"N">>, ent |-> <<>>],
    [kind |-> "Span",  text |-> <<"N", " ", "y">>, pos |-> <<"n">>, ent |-> <<"G">>],
    [kind |-> "Token", text |-> <<"d", "|">>,      pos |-> <<"n">>, ent |-> <<>>],
    [kind |-> "Token", text |-> <<"d">>,           pos |-> <<>>,    ent |-> <<"g">>] }

Objects ==
  { [doc |-> d, kind |-> p.kind, text |-> p.text, pos |-> p.pos, ent |-> p.ent] :
      d \in Docs, p \in Protos }

\* ---------------------------------------------- spaCy's extension registry
has_extension(exts, cls, name) == \E e \in exts : e[1] = cls /\ e[2] = name

set_extension_force(exts, cls, name, owner) ==
  [ok |-> TRUE,
   exts |-> {e \in exts : ~(e[1] = cls /\ e[2] = name)}
              \cup {<<cls, name, owner>>}]

\* cls.set_extension(name, ...) without force: registering twice raises
set_extension(exts, cls, name, owner) ==
  IF has_extension(exts, cls, name) THEN [ok |-> FALSE, exts |-> exts]
  ELSE [ok |-> TRUE, exts |-> exts \cup {<<cls, name, owner>>}]

ObjExtensions(cls) ==
  << <<cls, "s2v_key">>, <<cls, "in_s2v">>, <<cls, "s2v_vec">>,
     <<cls, "s2v_freq">>, <<cls, "s2v_other_senses">>,
     <<cls, "s2v_most_similar">> >>

\* the set_extension calls of init_component, in program order
Registrations ==
  << <<"Doc", "_s2v">>, <<"Doc", "s2v_phrases">> >>
    \o ObjExtensions("Token") \o ObjExtensions("Span")

RECURSIVE RegisterAll(_, _, _)
RegisterAll(exts, todo, owner) ==
  IF todo = <<>> THEN [ok |-> TRUE, exts |-> exts]
  ELSE LET r == set_extension(exts, Head(todo)[1], Head(todo)[2], owner)
       IN  IF r.ok THEN RegisterAll(r.exts, Tail(todo), owner) ELSE r

\* Sense2VecComponent.init_component, run by component l on registry exts
init_component(exts, l) == RegisterAll(exts, Registrations, l)

\* ------------------------------------------------- the extension accessors
\* reading doc._._s2v: unregistered it raises, registered it is the slot's
\* value (None by default)
doc_slot(d) ==
  IF has_extension(extensions, "Doc", "_s2v") THEN Ok(doc_s2v[d])
  ELSE Err("UnregisteredExtension")

\* reading obj._._s2v on a token or span: init_component registers "_s2v" on
\* Doc only, and nothing ever writes a token's or span's slot
obj_slot(obj) ==
  IF has_extension(extensions, obj.kind, "_s2v") THEN Ok(None)
  ELSE Err("UnregisteredExtension")

bound_store_fallback(d) ==
  LET ref == doc_slot(d)
  IN  IF ~ref.ok \/ ref.val = None THEN Ok(stores[1]) ELSE Ok(stores[ref.val])

\* the store an accessor works on: obj.doc._._s2v, which must not be None
bound_store(d) ==
  LET ref == doc_slot(d)
  IN  IF ~ref.ok THEN ref
      ELSE IF ref.val = None THEN Err("UnboundDocument")
      ELSE Ok(stores[ref.val])

s2v_key_ignore_ents(l, obj) ==
  LET st == bound_store(obj.doc)
  IN  IF ~st.ok THEN st ELSE make_spacy_key(obj, FALSE)

s2v_key_prefer_ents(l, obj) ==
  LET st == bound_store(obj.doc)
  IN  IF ~st.ok THEN st ELSE make_spacy_key(obj, TRUE)

s2v_key(l, obj) ==
  LET st == bound_store(obj.doc)
  IN  IF ~st.ok THEN st
      ELSE make_spacy_key(obj, layers[l].merge_phrases)

in_s2v_no_raise(l, obj) ==
  LET key == s2v_key(l, obj)
  IN  IF ~key.ok THEN Ok(FALSE)
      ELSE Ok(store_contains(bound_store(obj.doc).val, key.val))

in_s2v(l, obj) ==
  LET key == s2v_key(l, obj)
  IN  IF ~key.ok THEN key
      ELSE Ok(store_contains(bound_store(obj.doc).val, key.val))

s2v_vec_swallow(l, obj) ==
  LET st  == bound_store(obj.doc)
      key == s2v_key(l, obj)
  IN  IF ~st.ok THEN st
      ELSE IF ~key.ok THEN key
      ELSE IF store_contains(st.val, key.val) THEN store_get(st.val, key.val)
      ELSE Ok(0)

s2v_vec(l, obj) ==
  LET st  == bound_store(obj.doc)
      key == s2v_key(l, obj)
  IN  IF ~st.ok THEN st
      ELSE IF ~key.ok THEN key
      ELSE store_get(st.val, key.val)

s2v_freq(l, obj) ==
  LET st  == bound_store(obj.doc)
      key == s2v_key(l, obj)
  IN  IF ~st.ok THEN st
      ELSE IF ~key.ok THEN key
      ELSE store_get_freq(st.val, key.val)

s2v_most_similar_reversed(l, obj, n) ==
  LET key     == s2v_key(l, obj)
      results == store_most_similar(bound_store(obj.doc).val, <<key.val>>, n)
  IN  IF ~key.ok THEN key
      ELSE IF ~results.ok THEN results
      ELSE Ok([i \in 1..Len(results.val) |->
                 LET r == results.val[Len(results.val) + 1 - i]
                 IN  <<split_key(r[1]), r[2]>>])

s2v_most_similar(l, obj, n) ==
  LET key     == s2v_key(l, obj)
      results == store_most_similar(bound_store(obj.doc).val, <<key.val>>, n)
  IN  IF ~key.ok THEN key
      ELSE IF ~results.ok THEN results
      ELSE Ok([i \in 1..Len(results.val) |->
                 <<split_key(results.val[i][1]), results.val[i][2]>>])

\* the stores one s2v_most_similar call works with: line 119 builds the key
\* with obj.doc._._s2v (through s2v_key), line 120 queries obj.doc._._s2v,
\* line 121 splits the returned keys with self.s2v
most_similar_stores(l, obj) ==
  [encode |-> doc_s2v[obj.doc],
   query  |-> doc_s2v[obj.doc],
   decode |-> layers[l].s2v]

s2v_other_senses(l, obj) ==
  LET key == s2v_key(l, obj)
      ref == obj_slot(obj)
  IN  IF ~key.ok THEN key
      ELSE IF ~ref.ok THEN ref
      ELSE IF ref.val = None THEN Err("UnboundDocument")
      ELSE Ok(store_get_other_senses(stores[ref.val], key.val))

\* ------------------------------------------------------------------ actions
Layers == 1..Len(layers)

Init ==
  /\ layers = <<>>
  /\ stores = <<>>
  /\ extensions = {}
  /\ doc_s2v = [d \in Docs |-> None]
  /\ merged = {}
  /\ passed = {}
  /\ disk = [p \in Paths |-> Malformed]
  /\ init_calls = <<>>
  /\ calls = <<>>
  /\ last = [op |-> "none"]
  /\ threads = [t \in Threads |-> Idle]

init_registers(has_vocab, mp) ==
  /\ Len(layers) < MaxLayers
  /\ Len(stores) < MaxStores
  /\ stores' = Append(stores, store_new(IF has_vocab THEN "host" ELSE "private"))
  /\ layers' = Append(layers, [s2v |-> Len(stores) + 1, first_run |-> TRUE,
                               merge_phrases |-> mp])
  /\ init_calls' = Append(init_calls, 0)
  /\ calls' = Append(calls, 0)
  /\ last' = [op |-> "init"]
  /\ extensions' = init_component(extensions, Len(layers) + 1).exts
  /\ UNCHANGED <<doc_s2v, merged, passed, disk>>

\* Sense2VecComponent(vocab, merge_phrases=mp); has_vocab: vocab is not None
init(has_vocab, mp) ==
  /\ Len(layers) < MaxLayers
  /\ Len(stores) < MaxStores
  /\ stores' = Append(stores, store_new(IF has_vocab THEN "host" ELSE "private"))
  /\ layers' = Append(layers, [s2v |-> Len(stores) + 1, first_run |-> TRUE,
                               merge_phrases |-> mp])
  /\ init_calls' = Append(init_calls, 0)
  /\ calls' = Append(calls, 0)
  /\ last' = [op |-> "init"]
  /\ UNCHANGED <<extensions, doc_s2v, merged, passed, disk>>

\* Sense2VecComponent.from_nlp(nlp, merge_phrases=mp)
from_nlp(mp) == init(TRUE, mp)

\* util.merge_phrases(doc): the documents it may return, the document itself
\* (phrases merged in place) or a document the host has not seen yet
util_merge_phrases(d) ==
  {d} \cup {e \in Docs : e \notin passed /\ e \notin merged /\ doc_s2v[e] = None}

RECURSIVE SumSeq(_)
SumSeq(s) == IF s = <<>> THEN 0 ELSE Head(s) + SumSeq(Tail(s))

\* lines 50-51: init_component runs when first_run is set
run_init(l) ==
  IF layers[l].first_run THEN init_component(extensions, l)
  ELSE [ok |-> TRUE, exts |-> extensions]

mark_ran_forgotten(l) == layers

\* line 52: self.first_run = False
mark_ran(l) == [layers EXCEPT ![l].first_run = FALSE]

stamp_once(l, d) ==
  IF doc_s2v[d] = None THEN [doc_s2v EXCEPT ![d] = layers[l].s2v]
  ELSE doc_s2v

\* line 54: doc._._s2v = self.s2v
stamp(l, d) == [doc_s2v EXCEPT ![d] = layers[l].s2v]

\* lines 55-57: the documents __call__ may return for doc d
returned_docs(l, d) ==
  IF layers[l].merge_phrases THEN util_merge_phrases(d) ELSE {d}

call_flag_first(l, d) ==
  LET reg == run_init(l)
  IN  /\ SumSeq(calls) < MaxCalls
      /\ calls' = [calls EXCEPT ![l] = @ + 1]
      /\ init_calls' = [init_calls EXCEPT
                          ![l] = IF layers[l].first_run THEN @ + 1 ELSE @]
      /\ passed' = passed \cup {d}
      /\ extensions' = reg.exts
      /\ UNCHANGED <<stores, disk>>
      /\ layers' = mark_ran(l)
      /\ IF ~reg.ok
         THEN /\ last' = [op |-> "call", layer |-> l, doc |-> d,
                          res |-> Err("ValueError")]
              /\ UNCHANGED <<doc_s2v, merged>>
         ELSE /\ doc_s2v' = stamp(l, d)
              /\ \E out \in returned_docs(l, d) :
                   /\ merged' = IF layers[l].merge_phrases
                                THEN merged \cup {out} ELSE merged
                   /\ last' = [op |-> "call", layer |-> l, doc |-> d,
                               res |-> Ok(out)]

\* Sense2VecComponent.__call__(doc)
call(l, d) ==
  LET reg == run_init(l)
  IN  /\ SumSeq(calls) < MaxCalls
      /\ calls' = [calls EXCEPT ![l] = @ + 1]
      /\ init_calls' = [init_calls EXCEPT
                          ![l] = IF layers[l].first_run THEN @ + 1 ELSE @]
      /\ passed' = passed \cup {d}
      /\ extensions' = reg.exts
      /\ UNCHANGED <<stores, disk>>
      /\ IF ~reg.ok
         THEN /\ last' = [op |-> "call", layer |-> l, doc |-> d,
                          res |-> Err("ValueError")]
              /\ UNCHANGED <<layers, doc_s2v, merged>>
         ELSE /\ layers' = mark_ran(l)
              /\ doc_s2v' = stamp(l, d)
              /\ \E out \in returned_docs(l, d) :
                   /\ merged' = IF layers[l].merge_phrases
                                THEN merged \cup {out} ELSE merged
                   /\ last' = [op |-> "call", layer |-> l, doc |-> d,
                               res |-> Ok(out)]

\* an accessor leaves the program's state alone; its outcome is observed
Observe(op, l, obj, n, res) ==
  /\ last' = [op |-> op, layer |-> l, obj |-> obj, n |-> n, res |-> res]
  /\ UNCHANGED <<layers, stores, extensions, doc_s2v, merged, passed, disk,
                 init_calls, calls>>

get_s2v_key(l, obj)          == Observe("s2v_key", l, obj, 0, s2v_key(l, obj))
get_in_s2v(l, obj)           == Observe("in_s2v", l, obj, 0, in_s2v(l, obj))
get_s2v_vec(l, obj)          == Observe("s2v_vec", l, obj, 0, s2v_vec(l, obj))
get_s2v_freq(l, obj)         == Observe("s2v_freq", l, obj, 0, s2v_freq(l, obj))
get_s2v_other_senses(l, obj) ==
  Observe("s2v_other_senses", l, obj, 0, s2v_other_senses(l, obj))
call_s2v_most_similar(l, obj, n) ==
  Observe("s2v_most_similar", l, obj, n, s2v_most_similar(l, obj, n))

\* Sense2VecComponent.to_bytes()
to_bytes(l) ==
  /\ last' = [op |-> "to_bytes", layer |-> l,
              res |-> Ok(store_to_bytes(stores[layers[l].s2v]))]
  /\ UNCHANGED <<layers, stores, extensions, doc_s2v, merged, passed, disk,
                 init_calls, calls>>

loaded_dropped(l, sid) == layers

loaded_defaults(l, sid) ==
  [layers EXCEPT ![l].s2v = sid, ![l].merge_phrases = FALSE]

loaded_reset(l, sid) == [layers EXCEPT ![l].s2v = sid, ![l].first_run = TRUE]

\* self.s2v = <the loaded store>: nothing else of the component changes
loaded(l, sid) == [layers EXCEPT ![l].s2v = sid]

\* self.s2v = Sense2Vec().from_bytes(data, exclude=["strings"])
load(op, l, data) ==
  LET st == store_from_bytes(data)
  IN  /\ UNCHANGED <<extensions, doc_s2v, merged, passed, disk, init_calls, calls>>
      /\ IF st.ok
         THEN /\ Len(stores) < MaxStores
              /\ stores' = Append(stores, st.val)
              /\ layers' = loaded(l, Len(stores) + 1)
              /\ last' = [op |-> op, layer |-> l, res |-> Ok(l)]
         ELSE /\ last' = [op |-> op, layer |-> l, res |-> st]
              /\ UNCHANGED <<layers, stores>>

\* Sense2VecComponent.from_bytes(bytes_data)
from_bytes(l, data) == load("from_bytes", l, data)

\* Sense2VecComponent.to_disk(path)
to_disk(l, path) ==
  /\ disk' = [disk EXCEPT ![path] = store_to_bytes(stores[layers[l].s2v])]
  /\ last' = [op |-> "to_disk", layer |-> l, res |-> Ok(path)]
  /\ UNCHANGED <<layers, stores, extensions, doc_s2v, merged, passed,
                 init_calls, calls>>

\* Sense2VecComponent.from_disk(path)
from_disk(l, path) == load("from_disk", l, disk[path])

\* Two or more components sharing the object model: construction, __call__
\* and the serialization passthrough.
Next ==
  \/ \E hv \in BOOLEAN, mp \in BOOLEAN : init(hv, mp) /\ UNCHANGED threads
  \/ \E mp \in BOOLEAN : from_nlp(mp) /\ UNCHANGED threads
  \/ \E l \in Layers, d \in Docs : call(l, d) /\ UNCHANGED threads
  \/ \E l \in Layers : to_bytes(l) /\ UNCHANGED threads
  \/ \E l \in Layers, data \in SampleBytes :
       from_bytes(l, data) /\ UNCHANGED threads
  \/ \E l \in Layers, p \in Paths : to_disk(l, p) /\ UNCHANGED threads
  \/ \E l \in Layers, p \in Paths : from_disk(l, p) /\ UNCHANGED threads

Spec == Init /\ [][Next]_vars

\* One component made by the factory, with every operation it exposes: the
\* extension accessors are called on the objects of the host's documents.
NextOne ==
  \/ \E mp \in BOOLEAN :
       Len(layers) < MaxOneLayers /\ from_nlp(mp) /\ UNCHANGED threads
  \/ \E l \in Layers, d \in Docs : call(l, d) /\ UNCHANGED threads
  \/ \E l \in Layers, obj \in Objects :
       get_s2v_key(l, obj) /\ UNCHANGED threads
  \/ \E l \in Layers, obj \in Objects :
       get_in_s2v(l, obj) /\ UNCHANGED threads
  \/ \E l \in Layers, obj \in Objects :
       get_s2v_vec(l, obj) /\ UNCHANGED threads
  \/ \E l \in Layers, obj \in Objects :
       get_s2v_freq(l, obj) /\ UNCHANGED threads
  \/ \E l \in Layers, obj \in Objects :
       get_s2v_other_senses(l, obj) /\ UNCHANGED threads
  \/ \E l \in Layers, obj \in Objects, n \in NVals :
       call_s2v_most_similar(l, obj, n) /\ UNCHANGED threads
  \/ \E l \in Layers : to_bytes(l) /\ UNCHANGED threads
  \/ \E l \in Layers, data \in SampleBytes :
       Len(stores) < MaxOneStores /\ from_bytes(l, data) /\ UNCHANGED threads
  \/ \E l \in Layers, p \in Paths : to_disk(l, p) /\ UNCHANGED threads
  \/ \E l \in Layers, p \in Paths :
       Len(stores) < MaxOneStores /\ from_disk(l, p) /\ UNCHANGED threads

SpecOne == Init /\ [][NextOne]_vars

\* ------------------------------------------ __call__ run by several threads
\* One component shared by threads that each run __call__ once. Nothing in
\* __call__ takes a lock, so a thread switch can fall between any two of its
\* statements: the test of first_run, each set_extension of init_component,
\* the write of first_run and the rest of the body are separate steps.

\* lines 44, 50-51: thread t enters __call__(doc d) of component l and tests
\* self.first_run; when it is set the thread enters init_component
t_check(t, l, d) ==
  /\ threads[t].pc = "idle"
  /\ threads' = [threads EXCEPT ![t] =
                   [pc |-> IF layers[l].first_run THEN "init" ELSE "stamp",
                    layer |-> l, doc |-> d, i |-> 1]]
  /\ init_calls' = [init_calls EXCEPT
                      ![l] = IF layers[l].first_run THEN @ + 1 ELSE @]
  /\ passed' = passed \cup {d}
  /\ UNCHANGED <<layers, stores, extensions, doc_s2v, merged, disk, calls,
                 last>>

\* lines 65-73: the next set_extension of init_component; when it raises,
\* the exception leaves __call__
t_set_extension(t) ==
  LET th  == threads[t]
      reg == Registrations[th.i]
      r   == set_extension(extensions, reg[1], reg[2], th.layer)
  IN  /\ th.pc = "init"
      /\ extensions' = r.exts
      /\ UNCHANGED <<layers, stores, doc_s2v, merged, passed, disk, init_calls>>
      /\ IF r.ok
         THEN /\ threads' = [threads EXCEPT ![t] =
                   IF th.i = Len(Registrations)
                   THEN [th EXCEPT !.pc = "flag"]
                   ELSE [th EXCEPT !.i = @ + 1]]
              /\ UNCHANGED <<calls, last>>
         ELSE /\ threads' = [threads EXCEPT ![t].pc = "done"]
              /\ calls' = [calls EXCEPT ![th.layer] = @ + 1]
              /\ last' = [op |-> "call", layer |-> th.layer, doc |-> th.doc,
                          res |-> Err("ValueError")]

\* line 52: self.first_run = False
t_mark_ran(t) ==
  /\ threads[t].pc = "flag"
  /\ layers' = mark_ran(threads[t].layer)
  /\ threads' = [threads EXCEPT ![t].pc = "stamp"]
  /\ UNCHANGED <<stores, extensions, doc_s2v, merged, passed, disk,
                 init_calls, calls, last>>

\* lines 54-57: the binding, the merge and the return
t_finish(t) ==
  LET l == threads[t].layer
      d == threads[t].doc
  IN  /\ threads[t].pc = "stamp"
      /\ doc_s2v' = stamp(l, d)
      /\ calls' = [calls EXCEPT ![l] = @ + 1]
      /\ threads' = [threads EXCEPT ![t].pc = "done"]
      /\ \E out \in returned_docs(l, d) :
           /\ merged' = IF layers[l].merge_phrases
                        THEN merged \cup {out} ELSE merged
           /\ last' = [op |-> "call", layer |-> l, doc |-> d, res |-> Ok(out)]
      /\ UNCHANGED <<layers, stores, extensions, passed, disk, init_calls>>

NextThreads ==
  \/ \E mp \in BOOLEAN :
       Len(layers) < MaxOneLayers /\ from_nlp(mp) /\ UNCHANGED threads
  \/ \E t \in Threads, l \in Layers, d \in Docs : t_check(t, l, d)
  \/ \E t \in Threads : t_set_extension(t)
  \/ \E t \in Threads : t_mark_ran(t)
  \/ \E t \in Threads : t_finish(t)

SpecThreads == Init /\ [][NextThreads]_vars

\* One component that is loaded again between its calls: construction,
\* __call__, from_bytes and the s2v_most_similar extension method.
NextReload ==
  \/ \E mp \in BOOLEAN :
       Len(layers) < MaxOneLayers /\ from_nlp(mp) /\ UNCHANGED threads
  \/ \E l \in Layers, d \in Docs : call(l, d) /\ UNCHANGED threads
  \/ \E l \in Layers, data \in SampleBytes :
       from_bytes(l, data) /\ UNCHANGED threads
  \/ \E l \in Layers, obj \in Objects, n \in NVals :
       call_s2v_most_similar(l, obj, n) /\ UNCHANGED threads

SpecReload == Init /\ [][NextReload]_vars

\* =================================================================== claims
Ready(l)      == ~layers[l].first_run
AccessorOps   == {"in_s2v", "s2v_vec", "s2v_freq", "s2v_most_similar",
                  "s2v_other_senses"}
BindingErrors == {"UnboundDocument", "UnregisteredExtension"}

\* C1: when one component is the only one whose __call__ has been invoked,
\* it has run init_component exactly once, however many documents it was
\* called on: the first call registers, no later call does.
C1_RegistersOnce ==
  \A l \in Layers :
    (calls[l] >= 1 /\ \A k \in Layers \ {l} : calls[k] = 0)
      => init_calls[l] = 1

\* two calls of one component, on two different documents
C1_Witness ==
  \E l \in Layers :
    /\ calls[l] = 2
    /\ \A k \in Layers \ {l} : calls[k] = 0
    /\ Cardinality(passed) = 2
    /\ init_calls[l] = 1

\* C2: as long as no component has processed a document, however many have
\* been constructed (directly or by from_nlp), nothing is registered on
\* Token, Span or Doc.
C2_ConstructRegistersNothing ==
  SumSeq(calls) = 0 => extensions = {}

\* two components constructed, none used
C2_Witness ==
  /\ Len(layers) = 2
  /\ SumSeq(calls) = 0
  /\ last.op = "init"

\* C3: a component is Uninitialized when constructed; a __call__ that returns
\* leaves it Ready, and nothing else makes it Ready; once Ready no operation
\* makes it Uninitialized again.
C3_InitializedMonotonic ==
  [][ /\ \A l \in 1..Len(layers') : l > Len(layers) => layers'[l].first_run
      /\ \A l \in Layers :
           /\ Ready(l) => ~layers'[l].first_run
           /\ (calls'[l] > calls[l] /\ last'.res.ok) => ~layers'[l].first_run
           /\ (~Ready(l) /\ ~layers'[l].first_run) => calls'[l] > calls[l]
    ]_vars

\* a Ready component has just loaded another store
C3_Witness ==
  /\ last.op \in {"from_bytes", "from_disk"}
  /\ last.res.ok
  /\ Ready(last.layer)

\* C4: the document a __call__ returns carries the binding to the component's
\* store, in both merge modes.
C4_ReturnedDocIsBound ==
  (last.op = "call" /\ last.res.ok)
    => doc_s2v[last.res.val] = layers[last.layer].s2v

\* the key of the object of the last accessor call, and the store its
\* document references
LastKey   == s2v_key(last.layer, last.obj)
LastStore == stores[doc_s2v[last.obj.doc]]
LastRows  == LastStore.rows
Present(key) == \E i \in 1..Len(LastRows) : LastRows[i].key = key

\* C5: an accessor called on an object whose document was never passed to
\* __call__ raises for want of a binding and returns nothing, whether or not
\* the component is Ready.
C5_UnboundDocumentFails ==
  (last.op \in AccessorOps /\ last.obj.doc \notin passed)
    => (~last.res.ok /\ last.res.err \in BindingErrors)

\* the component is Ready because of another document
C5_Witness ==
  /\ last.op = "s2v_vec"
  /\ last.obj.doc \notin passed
  /\ passed # {}
  /\ Ready(last.layer)
  /\ ~last.res.ok

\* C6: s2v_other_senses on an object of a processed document returns what the
\* document's store returns from get_other_senses for the object's key.
C6_OtherSensesFromBoundStore ==
  (last.op = "s2v_other_senses" /\ last.obj.doc \in passed /\ LastKey.ok)
    => /\ last.res.ok
       /\ last.res.val = store_get_other_senses(LastStore, LastKey.val)

\* C7: on an object of a processed document, for a key absent from the bound
\* store in_s2v is False and s2v_vec raises KeyNotFound; for a key present
\* in_s2v is True and s2v_vec, s2v_freq are the row's vector and count.
C7_LookupFidelity ==
  (last.op \in {"in_s2v", "s2v_vec", "s2v_freq"} /\ last.obj.doc \in passed
     /\ LastKey.ok)
    => IF Present(LastKey.val)
       THEN \E i \in 1..Len(LastRows) :
              /\ LastRows[i].key = LastKey.val
              /\ last.op = "in_s2v"   => last.res = Ok(TRUE)
              /\ last.op = "s2v_vec"  => last.res = Ok(LastRows[i].vec)
              /\ last.op = "s2v_freq" => last.res = Ok(LastRows[i].freq)
       ELSE /\ last.op = "in_s2v"  => last.res = Ok(FALSE)
            /\ last.op = "s2v_vec" => last.res = Err("KeyNotFound")

\* s2v_vec raised KeyNotFound against a store that holds other keys
C7_Witness ==
  /\ last.op = "s2v_vec"
  /\ last.obj.doc \in passed
  /\ LastRows # <<>>
  /\ last.res = Err("KeyNotFound")

\* C8: s2v_most_similar with n <= 0 raises InvalidArgument and returns no
\* list (stated for the case most favourable to it: a processed document and
\* a key the store holds).
C8_NonPositiveNRejected ==
  (last.op = "s2v_most_similar" /\ last.n <= 0 /\ last.obj.doc \in passed
     /\ LastKey.ok /\ Present(LastKey.val))
    => (~last.res.ok /\ last.res.err = "InvalidArgument")

\* C9: for n >= 1, s2v_most_similar on an object of a processed document
\* returns, entry for entry and in the store's order, the decoded key and the
\* score of what the bound store returns for the query [key], at most n
\* entries; a store error is passed on.
C9_MostSimilarFidelity ==
  (last.op = "s2v_most_similar" /\ last.n >= 1 /\ last.obj.doc \in passed
     /\ LastKey.ok)
    => LET r == store_most_similar(LastStore, <<LastKey.val>>, last.n)
       IN  IF ~r.ok THEN last.res = r
           ELSE /\ last.res.ok
                /\ Len(last.res.val) = Len(r.val)
                /\ Len(last.res.val) <= last.n
                /\ \A i \in 1..Len(r.val) :
                     /\ last.res.val[i][2] = r.val[i][2]
                     /\ make_key(last.res.val[i][1][1], last.res.val[i][1][2])
                          = r.val[i][1]

\* a store with three neighbours answers n = 2 with two decoded entries
C9_Witness ==
  /\ last.op = "s2v_most_similar"
  /\ last.n = 2
  /\ last.res.ok
  /\ Len(last.res.val) = 2
  /\ Len(LastRows) > 3

\* C10: the sense of an object's key is its entity label exactly when the
\* component merges phrases and the object has an entity label; otherwise it
\* is the coarse tag.
C10_MergeModeGating ==
  (last.op = "s2v_key" /\ last.res.ok)
    => LET sense   == split_key(last.res.val)[2]
           as_ent  == layers[last.layer].merge_phrases /\ last.obj.ent # <<>>
       IN  /\ (sense = UpperSeq(last.obj.ent)) <=> as_ent
           /\ ~as_ent => sense = UpperSeq(last.obj.pos)

\* an entity span keyed by a component that does not merge phrases
C10_Witness ==
  /\ last.op = "s2v_key"
  /\ last.res.ok
  /\ last.obj.ent # <<>>
  /\ ~layers[last.layer].merge_phrases

\* the (single) store a component references
StoreOf(l) == stores[layers[l].s2v]

\* two stores answer contains, get and get_freq alike for every key of a
Agree(a, b) ==
  \A i \in 1..Len(a.rows) :
    LET key == a.rows[i].key
    IN  /\ store_contains(b, key)
        /\ store_get(b, key) = store_get(a, key)
        /\ store_get_freq(b, key) = store_get_freq(a, key)

\* C11: when a component loads (from_bytes, from_disk) what to_bytes or
\* to_disk wrote of a store, its store afterwards answers contains, get and
\* get_freq as that store did for every key the store held.
C11_SerializationRoundTrip ==
  [][ \A l \in Layers, s \in 1..Len(stores) :
        ( \/ from_bytes(l, store_to_bytes(stores[s]))
          \/ \E p \in Paths :
               disk[p] = store_to_bytes(stores[s]) /\ from_disk(l, p) )
          => Agree(stores[s], stores'[layers'[l].s2v])
    ]_vars

\* a component whose store holds keys has loaded from the directory it
\* saved to
C11_Witness ==
  /\ last.op = "from_disk"
  /\ last.res.ok
  /\ StoreOf(last.layer).rows # <<>>
  /\ \E p \in Paths : disk[p] = store_to_bytes(StoreOf(last.layer))
  /\ \E s \in 1..Len(stores) :
       s # layers[last.layer].s2v /\ stores[s].rows = StoreOf(last.layer).rows

\* C12: the store of a component constructed with the host's vocab is
\* attached to the host's string table in every state, also after a load.
C12_StoreUsesHostStrings ==
  \A l \in Layers : StoreOf(l).strings = "host"

\* the sense a component resolves for an object: its entity label in merge
\* mode when it has one, else its coarse tag, upper-cased
ResolvedSense(l, obj) ==
  IF layers[l].merge_phrases /\ obj.ent # <<>> THEN UpperSeq(obj.ent)
  ELSE UpperSeq(obj.pos)

\* C13: splitting the key of an object gives back its normalized text and its
\* resolved sense, also when the text holds the separator; and every object
\* with the same normalized text and the same resolved sense has that key.
C13_CodecRoundTrip ==
  (last.op = "s2v_key" /\ last.res.ok)
    => /\ split_key(last.res.val)
            = <<normalize_text(last.obj.text),
                ResolvedSense(last.layer, last.obj)>>
       /\ \A o \in Objects :
            ( /\ doc_s2v[o.doc] # None
              /\ normalize_text(o.text) = normalize_text(last.obj.text)
              /\ ResolvedSense(last.layer, o)
                   = ResolvedSense(last.layer, last.obj) )
              => s2v_key(last.layer, o) = last.res

\* the key of an object whose text holds the separator, equal to the key of
\* an object with another raw text
C13_Witness ==
  /\ last.op = "s2v_key"
  /\ last.res.ok
  /\ \E i \in 1..Len(last.obj.text) : last.obj.text[i] = SEP
  /\ \E o \in Objects :
       o.text # last.obj.text /\ s2v_key(last.layer, o) = last.res

\* C14: an accessor called on an object whose resolved sense is empty
\* fails, so the store is not asked; when the object's document is bound to
\* a store, the failure is UnresolvableSense.
C14_EmptySenseFails ==
  ( /\ last.op \in AccessorOps \cup {"s2v_key"}
    /\ ResolvedSense(last.layer, last.obj) = <<>> )
    => /\ ~last.res.ok
       /\ doc_s2v[last.obj.doc] # None
            => last.res = Err("UnresolvableSense")

\* in_s2v on an object with an entity label and no tag, outside merge mode
C14_Witness ==
  /\ last.op = "in_s2v"
  /\ doc_s2v[last.obj.doc] # None
  /\ last.obj.ent # <<>>
  /\ ResolvedSense(last.layer, last.obj) = <<>>
  /\ ~last.res.ok

\* a step of __call__, and one that returned
CallStep == Len(calls') = Len(calls) /\ calls' # calls
CallReturned == CallStep /\ last'.res.ok

\* C15: a document's binding is that of its most recent __call__: a call that
\* returns overwrites the binding of the document passed in with the store
\* the component references at that moment, and no other step (a load
\* included) changes any document's binding.
C15_BindingIsLatestCall ==
  [][ /\ CallReturned
        => doc_s2v' = [doc_s2v EXCEPT
                         ![last'.doc] = layers[last'.layer].s2v]
      /\ ~CallReturned => doc_s2v' = doc_s2v
    ]_vars

\* one component called on a document, loaded, and called on it again: the
\* document's binding is the loaded store
C15_Witness ==
  /\ last.op = "call"
  /\ last.res.ok
  /\ Len(layers) = 1
  /\ calls[1] = 2
  /\ passed = {last.doc}
  /\ layers[1].s2v = 2
  /\ doc_s2v[last.doc] = 2

\* C16: the extensions are registered at most once in total: an entry of the
\* registry is never replaced or removed, no name has two entries, and the
\* first __call__ of a component made after another one registered fails
\* and leaves the registry as it was.
C16_NoDoubleRegistration ==
  [][ /\ extensions \subseteq extensions'
      /\ \A e, f \in extensions' :
           (e[1] = f[1] /\ e[2] = f[2]) => e = f
      /\ (CallStep /\ layers[last'.layer].first_run /\ extensions # {})
           => (~last'.res.ok /\ extensions' = extensions)
    ]_vars

\* the first call of a second component failed; the registry holds the
\* first component's registrations only
C16_Witness ==
  /\ last.op = "call"
  /\ ~last.res.ok
  /\ extensions # {}
  /\ \A e \in extensions : e[3] # last.layer
  /\ Cardinality(extensions) = Len(Registrations)

\* C19: a __call__ whose init_component fails leaves the component, every
\* document's binding and the merged documents as they were: the component
\* still has first_run set, so its next call runs init_component again.
C19_FailedCallChangesNothing ==
  [][ (CallStep /\ ~last'.res.ok)
        => /\ layers' = layers
           /\ layers'[last'.layer].first_run
           /\ doc_s2v' = doc_s2v
           /\ merged' = merged
    ]_vars

\* a component in merge mode whose call ran init_component and failed, on
\* a document that stays unbound and unmerged
C19_Witness ==
  /\ last.op = "call"
  /\ ~last.res.ok
  /\ layers[last.layer].merge_phrases
  /\ layers[last.layer].first_run
  /\ init_calls[last.layer] = 1
  /\ doc_s2v[last.doc] = None
  /\ last.doc \notin merged

LoadOps == {"from_bytes", "from_disk"}

\* C20: no step changes a component's merge_phrases; the store a component
\* references changes only in a from_bytes / from_disk of that component,
\* which leaves first_run as it was; the accessors, to_bytes and to_disk
\* leave every component and every document's binding as they were.
C20_Frame ==
  [][ /\ \A l \in Layers :
           /\ layers'[l].merge_phrases = layers[l].merge_phrases
           /\ layers'[l].s2v # layers[l].s2v
                => /\ last'.op \in LoadOps
                   /\ last'.layer = l
                   /\ last'.res.ok
                   /\ layers'[l].first_run = layers[l].first_run
      /\ last'.op \in LoadOps
           => \A l \in Layers :
                layers'[l].first_run = layers[l].first_run
      /\ last'.op \in AccessorOps \cup {"s2v_key", "to_bytes", "to_disk"}
           => (layers' = layers /\ doc_s2v' = doc_s2v)
      /\ (CallStep /\ last'.res.ok)
           => layers'[last'.layer].s2v = layers[last'.layer].s2v
    ]_vars

\* a component in merge mode that has processed a document loads a store:
\* it is still in merge mode and Ready, and references the loaded store
C20_Witness ==
  /\ last.op \in LoadOps
  /\ last.res.ok
  /\ layers[last.layer].merge_phrases
  /\ ~layers[last.layer].first_run
  /\ merged # {}
  /\ \E d \in Docs :
       doc_s2v[d] # None /\ doc_s2v[d] # layers[last.layer].s2v

\* C17: when every thread has run __call__ on one and the same component,
\* which was constructed and never called before, init_component was run
\* exactly once.
C17_ConcurrentFirstUse ==
  \A l \in Layers :
    (\A t \in Threads : threads[t].pc = "done" /\ threads[t].layer = l)
      => init_calls[l] = 1

\* C18: a s2v_most_similar call that returns results built the key, asked
\* for the neighbours and split the returned keys with one and the same
\* store, the one bound to the object's document.
C18_MostSimilarOneStore ==
  (last.op = "s2v_most_similar" /\ last.res.ok)
    => LET used == most_similar_stores(last.layer, last.obj)
       IN  /\ used.encode = doc_s2v[last.obj.doc]
           /\ used.query = used.encode
           /\ used.decode = used.encode

====
